---- MODULE Spec2Model ----
(***************************************************************************)
(* RepCXL: the MONSTER replication protocol over shared memory nodes.      *)
(*                                                                         *)
(* Every process runs a round-driven write worker (monster_write) and a    *)
(* read worker (monster_read) over the memory nodes of its view.  Time is  *)
(* the wall clock counted in rounds since start_time: wait_next_round      *)
(* derives the round number from the clock, so a worker that is delayed    *)
(* past a round boundary skips rounds.  An object is identified with its   *)
(* offset in the object area.                                              *)
(***************************************************************************)
EXTENDS Integers, Sequences, FiniteSets, TLC

\* ---------------------------------------------------------------- bounds
MaxClock == 6          \* wall-clock rounds explored
MaxLate == 1           \* round boundaries that may pass while a body runs
MaxWrites == 1         \* client writes per process
MAX_PROCESSES == 2     \* slots of the OWCC table
MaxReads == 1          \* client reads, all processes together
TraceLen == 5          \* entries of the state log that are kept
Settle == 7            \* rounds a synchronous run goes on after MaxClock
MAX_OBJECTS == 3       \* slots of the object index
TotalSize == 8         \* total_size of the allocator, in bytes
ChunkSize == 2         \* chunk_size of the allocator, in bytes
MaxSize == 6           \* largest size asked of alloc_object
MaxPid == 2            \* largest process id that is registered
ObjSize == 2           \* size_of::<T>() of the objects of RepCXL<T>
MaxRound == 2          \* largest round written to the OWCC table directly
MaxSharedId == 2       \* largest object id used while the state is shared
MoreWrites == 2        \* client writes per process in the runs of SpecMany
StateSize == 3         \* size_of::<SharedState>(), in bytes

Procs == {0, 1}
Nodes == {1, 2}
Objects == {1}
Views == {<<1>>, <<1, 2>>}
None == [none |-> TRUE]

VARIABLES
    clock,          \* wall clock, in rounds since start_time
    late,           \* history: round boundaries that passed during a body
    view,           \* view[p]: memory nodes of process p, in list order
    mem,            \* mem[n][o]: ObjectMemoryEntry of object o on node n
    owcc,           \* owcc[n][i]: ObjectWCC slot i in node n's SharedState
    queue,          \* queue[p]: write requests sent to p's write worker
    awaiting,       \* awaiting[p]: p's write is with its worker, not acked
    nwrites,        \* nwrites[p]: writes issued by p's client
    monster_state,  \* monster_write locals, per process
    round_num,
    round_start,
    pending_req,
    wid,
    oid,
    pc,             \* "body": before/in a state body, "next": body done
    io,             \* nodes already visited by mem_writeall / mem_readall
    omes,           \* entries collected by mem_readall in PostConflictCheck
    trace,          \* the state log of the worker (repetitions collapsed)
    rd,             \* monster_read: the request being served, its entries;
                    \* history: u0, uni (see Observed) and quiet, no write to
                    \* the object was in flight since the read began
    rres,           \* the answer of the last read
    nreads,         \* reads issued by the clients
    won,            \* history: <<oid, round, pid>> of each Check with is_last
    rep,            \* history: <<oid, round, pid>> of each Replicate body
    cur,            \* history: the write p's client issued last
    fate,           \* history: how p's last write ended
    conc,           \* history: p's last write overlapped another writer's
    lastw,          \* history: the process that wrote object o last, if any
    lost,           \* history: p's PostConflictCheck found the write of a
                    \* winner that was done on some nodes of p's view only
    alloc,          \* an Allocator: allocated_size and object_index
    nstate,         \* nstate[n]: the Allocator in node n's SharedState
    processes,      \* processes[p]: GroupView::processes of process p
    ret,            \* what the last call of the object interface returned
    live,           \* history: the ids created and not removed since
    scopy,          \* scopy[p]: the copy of the SharedState that a call of
                    \* new_object or remove_object in p works on
    acks,           \* acks[p]: the acks p's worker sent for p's last write
    wres,           \* wres[p]: what handle.write returned to p's client
    stop_flag,      \* the shared atomic flag that the workers poll
    wexit,          \* wexit[p]: monster_write of p has left its loop
    rexit,          \* rexit[p]: monster_read of p has left its loop
    sblock,         \* the StartingBlock in the master node's SharedState
    sync,           \* sync[p]: where p is in sync_start
    stime,          \* stime[p]: start_time of sync_start in p, once it is set
    left,           \* history: the clock when p left the loop of sync_start
    wret            \* what the last direct call of the OWCC table returned

timeVars == <<clock, late>>
sharedVars == <<mem, owcc>>
clientVars == <<queue, awaiting, nwrites, cur, conc, lastw>>
roundVars == <<round_num, round_start>>
reqVars == <<pending_req, wid, oid>>
ioVars == <<io, omes>>
readVars == <<rd, rres, nreads>>
histVars == <<won, rep, fate, lost>>
mgmtVars == <<alloc, nstate, processes, ret, live, scopy>>
stopVars == <<stop_flag, wexit, rexit>>
startVars == <<sblock, sync, stime, left>>
sideVars == <<startVars, wret>>
extVars == <<acks, wres, stopVars, sideVars>>

vars == <<timeVars, view, sharedVars, clientVars, monster_state, roundVars,
          reqVars, pc, ioVars, trace, readVars, histVars, mgmtVars,
          extVars>>

\* ------------------------------------------------------------ data model
ZeroWid == <<0, 0>>
ZeroEntry == [wid |-> ZeroWid, value |-> 0]
ZeroSlot == [oid |-> 0, round |-> 0]

\* Wid order: by round, then the lower process id is the greater Wid
WidLess(x, y) == x[1] < y[1] \/ (x[1] = y[1] /\ x[2] > y[2])

ViewNodes(p) == {view[p][i] : i \in 1..Len(view[p])}

GetMasterNode(p) == CHOOSE n \in ViewNodes(p) : \A m \in ViewNodes(p) : n <= m

\* ------------------------------------------------------------------ OWCC
\* a write that lands in the slot after the one of pid
OwccWriteNext(tbl, o, round, pid) ==
    IF pid >= MAX_PROCESSES THEN tbl
    ELSE [tbl EXCEPT ![(pid + 1) % MAX_PROCESSES] =
                         [oid |-> o, round |-> round]]

\* ObjectWCC::write
OwccWrite(tbl, o, round, pid) ==
    IF pid >= MAX_PROCESSES THEN tbl
    ELSE [tbl EXCEPT ![pid] = [oid |-> o, round |-> round]]

\* is_last without the tie-break between two announcements of one round
IsLastNoTie(tbl, oid_in, current_round, round_in, pid_in) ==
    IF pid_in > MAX_PROCESSES THEN FALSE
    ELSE \A i \in 0..(MAX_PROCESSES - 1) :
            \/ tbl[i].oid # oid_in
            \/ ~(current_round > tbl[i].round /\ tbl[i].round > round_in)

\* is_last that looks at the slots of every object
IsLastAnyOid(tbl, oid_in, current_round, round_in, pid_in) ==
    IF pid_in > MAX_PROCESSES THEN FALSE
    ELSE \A i \in 0..(MAX_PROCESSES - 1) :
            /\ ~(current_round > tbl[i].round /\ tbl[i].round > round_in)
            /\ ~(tbl[i].round = round_in /\ i < pid_in)

\* ObjectWCC::is_last
IsLast(tbl, oid_in, current_round, round_in, pid_in) ==
    IF pid_in > MAX_PROCESSES THEN FALSE
    ELSE \A i \in 0..(MAX_PROCESSES - 1) :
            \/ tbl[i].oid # oid_in
            \/ /\ ~(current_round > tbl[i].round /\ tbl[i].round > round_in)
               /\ ~(tbl[i].round = round_in /\ i < pid_in)

\* ------------------------------------------------------- round scheduler
\* a wait_next_round that returns the round number it was called in
WaitNextRoundSame(p) ==
    /\ round_num' = round_num
    /\ round_start' = [round_start EXCEPT ![p] = clock + 1]

\* wait_next_round: the round number comes from the clock at the call, the
\* caller resumes at the next round boundary
WaitNextRound(p) ==
    /\ round_num' = [round_num EXCEPT ![p] = clock + 1]
    /\ round_start' = [round_start EXCEPT ![p] = clock + 1]

\* the spin loop of wait_start_time / wait_next_round has returned
Running(p) == pc[p] = "body" /\ clock >= round_start[p]

\* a Check that never finds its round expired
AlwaysOnTime(p) == TRUE

\* `now - round_start < round_time` in Check
\* a worker that finds every round expired
OnTimeNever(p) == FALSE

OnTime(p) == clock - round_start[p] < 1

\* every worker has finished the body of the current round
AllSettled == \A p \in Procs : pc[p] = "body" /\ round_start[p] > clock

\* logger.log_monster at the top of an iteration; an entry equal to the
\* last one is not repeated and only the last TraceLen entries are kept
LogMonster(t, s) ==
    IF t # <<>> /\ t[Len(t)] = s THEN t
    ELSE IF Len(t) < TraceLen THEN Append(t, s)
    ELSE Append(Tail(t), s)

Logged(p) == trace' = [trace EXCEPT ![p] = LogMonster(@, monster_state[p])]

\* ------------------------------------------------------------- allocator
ObjIds == 1..(MAX_OBJECTS + 1)
Sizes == 0..MaxSize
Slots == 0..(MAX_OBJECTS - 1)

\* Option: None, Some(v); Panic is a call that aborted the process
Some(v) == [some |-> v]
Panic == [panic |-> TRUE]

\* the state of the workers and of their clients
protoVarsBase == <<timeVars, view, sharedVars, clientVars, monster_state,
                   roundVars, reqVars, pc, ioVars, trace, readVars, histVars>>

\* the protocol state that the object interface leaves alone
protoVars == <<protoVarsBase, extVars>>

\* Allocator::new; total_size and chunk_size never change
NewAllocator ==
    [allocated_size |-> 0, object_index |-> [i \in Slots |-> None]]

\* ret before any call
NoCall == [op |-> "none", pid |-> 0, id |-> 0, size |-> 0, val |-> None]

\* Allocator::lookup_object: the first entry with the id
LookupObject(a, id) ==
    LET is == {i \in Slots : a.object_index[i] # None
                              /\ a.object_index[i].id = id} IN
    IF is = {} THEN None
    ELSE a.object_index[CHOOSE i \in is : \A j \in is : i <= j]

\* a size that is not rounded up to chunks
NotRounded(size) == size

\* `(size + chunk_size - 1) / chunk_size * chunk_size`
Rounded(size) == ((size + ChunkSize - 1) \div ChunkSize) * ChunkSize

\* an `end` that looks at the slot after i only
SlotEndNext(a, i) ==
    IF i = MAX_OBJECTS - 1 \/ a.object_index[i + 1] = None THEN TotalSize
    ELSE a.object_index[i + 1].offset

\* `end` of the gap at the empty slot i: the offset of the next entry
SlotEnd(a, i) ==
    LET js == {j \in Slots : j > i /\ a.object_index[j] # None} IN
    IF js = {} THEN TotalSize
    ELSE a.object_index[CHOOSE j \in js : \A k \in js : j <= k].offset

\* a first-fit loop that takes the last slot when no slot is empty
RECURSIVE AllocScanEvict(_, _, _, _)
AllocScanEvict(a, id, size, i) ==
    IF i >= MAX_OBJECTS
    THEN IF \A j \in Slots : a.object_index[j] # None
         THEN [alloc |-> [a EXCEPT !.object_index[MAX_OBJECTS - 1] =
                             [id |-> id, offset |-> @.offset, size |-> @.size]],
               val |-> Some(a.object_index[MAX_OBJECTS - 1].offset)]
         ELSE [alloc |-> a, val |-> None]
    ELSE IF a.object_index[i] # None THEN AllocScanEvict(a, id, size, i + 1)
    ELSE IF i > 0 /\ a.object_index[i - 1] = None
         THEN [alloc |-> a, val |-> Panic]
    ELSE LET start == IF i = 0 THEN 0
                      ELSE a.object_index[i - 1].offset
                           + a.object_index[i - 1].size
         IN IF start + size <= SlotEnd(a, i)
            THEN [alloc |-> [allocated_size |-> a.allocated_size + size,
                             object_index |->
                                [a.object_index EXCEPT ![i] =
                                    [id |-> id, offset |-> start,
                                     size |-> size]]],
                  val |-> Some(start)]
            ELSE AllocScanEvict(a, id, size, i + 1)

\* the first-fit loop of alloc_object from slot i on; `expect` aborts when
\* the slot before an empty slot is empty too
RECURSIVE AllocScan(_, _, _, _)
AllocScan(a, id, size, i) ==
    IF i >= MAX_OBJECTS THEN [alloc |-> a, val |-> None]
    ELSE IF a.object_index[i] # None THEN AllocScan(a, id, size, i + 1)
    ELSE IF i > 0 /\ a.object_index[i - 1] = None
         THEN [alloc |-> a, val |-> Panic]
    ELSE LET start == IF i = 0 THEN 0
                      ELSE a.object_index[i - 1].offset
                           + a.object_index[i - 1].size
         IN IF start + size <= SlotEnd(a, i)
            THEN [alloc |-> [allocated_size |-> a.allocated_size + size,
                             object_index |->
                                [a.object_index EXCEPT ![i] =
                                    [id |-> id, offset |-> start,
                                     size |-> size]]],
                  val |-> Some(start)]
            ELSE AllocScan(a, id, size, i + 1)

\* Allocator::alloc_object: the allocator after the call and what it returns
AllocObject(a, id, size) ==
    IF a.allocated_size + Rounded(size) > TotalSize
    THEN [alloc |-> a, val |-> None]
    ELSE IF LookupObject(a, id) # None THEN [alloc |-> a, val |-> None]
    ELSE AllocScan(a, id, Rounded(size), 0)

\* a dealloc_object that frees the slot and keeps allocated_size
RECURSIVE DeallocScanKeepSize(_, _, _)
DeallocScanKeepSize(a, id, i) ==
    IF i >= MAX_OBJECTS THEN a
    ELSE IF a.object_index[i] # None /\ a.object_index[i].id = id
         THEN DeallocScanKeepSize(
                [a EXCEPT !.object_index[i] = None], id, i + 1)
    ELSE DeallocScanKeepSize(a, id, i + 1)

\* Allocator::dealloc_object from slot i on
RECURSIVE DeallocScan(_, _, _)
DeallocScan(a, id, i) ==
    IF i >= MAX_OBJECTS THEN a
    ELSE IF a.object_index[i] # None /\ a.object_index[i].id = id
         THEN DeallocScan(
                [allocated_size |-> a.allocated_size - a.object_index[i].size,
                 object_index |-> [a.object_index EXCEPT ![i] = None]],
                id, i + 1)
    ELSE DeallocScan(a, id, i + 1)

\* Allocator::dealloc_object
DeallocObject(a, id) == DeallocScan(a, id, 0)

\* a call of alloc_object on the allocator
AllocCall(id, size) ==
    /\ LET r == AllocObject(alloc, id, size) IN
        /\ alloc' = r.alloc
        /\ ret' = [op |-> "alloc", pid |-> 0, id |-> id, size |-> size,
                   val |-> r.val]
    /\ UNCHANGED <<protoVars, nstate, processes, live, scopy>>

\* a call of dealloc_object on the allocator
DeallocCall(id) ==
    /\ alloc' = DeallocObject(alloc, id)
    /\ ret' = [op |-> "dealloc", pid |-> 0, id |-> id, size |-> 0,
               val |-> None]
    /\ UNCHANGED <<protoVars, nstate, processes, live, scopy>>

\* ------------------------------------------------------ object interface
\* MemoryNode::size: from_file maps the `size` bytes of RepCXL, the same
\* number that init_state gives to the allocator as total_size
MemSize == TotalSize

\* the bytes from obj_addr = ptr + STATE_SIZE to the end of the mapping
ObjAreaSize == MemSize - StateSize

\* MemoryNode::addr_at does not panic for the offset
AddrAtOk(offset) == offset < MemSize

Pids == 0..MaxPid

\* the process ids in the list ps
Registered(ps) == {ps[i] : i \in 1..Len(ps)}

\* GroupView::add_process
AddProcess(ps, pid) == IF pid \in Registered(ps) THEN ps ELSE Append(ps, pid)

\* a coordinator that is the first process of the list
FirstProcess(p) == processes[p][1]

\* GroupView::get_coordinator: the lowest process id of the view
GetCoordinator(p) ==
    CHOOSE c \in Registered(processes[p]) :
        \A q \in Registered(processes[p]) : c <= q

\* RepCXL::is_coordinator
IsCoordinator(p) == GetCoordinator(p) = p

\* RepCXL::register_process
RegisterProcess(p, pid) ==
    /\ sync[p] # "loop"
    /\ processes' = [processes EXCEPT ![p] = AddProcess(@, pid)]
    /\ ret' = [op |-> "register", pid |-> p, id |-> pid, size |-> 0,
               val |-> None]
    /\ UNCHANGED <<protoVars, alloc, nstate, live, scopy>>

\* read_state_from_any: the allocator of the first memory node of the view
ReadStateFromAny(p) == nstate[view[p][1]]

\* `node.write_state(state)` for every memory node of the view
WriteState(p, a) ==
    nstate' = [n \in Nodes |-> IF n \in ViewNodes(p) THEN a ELSE nstate[n]]

\* RepCXL::new_object: allocate in a copy of the state and, when that
\* succeeds, write the copy to every node
NewObject(p, id) ==
    /\ LET r == AllocObject(ReadStateFromAny(p), id, ObjSize) IN
        /\ IF r.val \notin {None, Panic}
           THEN WriteState(p, r.alloc) /\ live' = live \cup {id}
           ELSE UNCHANGED <<nstate, live>>
        /\ ret' = [op |-> "new_object", pid |-> p, id |-> id,
                   size |-> ObjSize, val |-> r.val]
    /\ UNCHANGED <<protoVars, alloc, processes, scopy>>

\* a remove_object that changes its copy of the state only
RemoveObjectLocal(p, id) ==
    /\ live' = live \ {id}
    /\ ret' = [op |-> "remove_object", pid |-> p, id |-> id, size |-> 0,
               val |-> None]
    /\ UNCHANGED <<protoVars, alloc, processes, nstate, scopy>>

\* RepCXL::remove_object
RemoveObject(p, id) ==
    /\ WriteState(p, DeallocObject(ReadStateFromAny(p), id))
    /\ live' = live \ {id}
    /\ ret' = [op |-> "remove_object", pid |-> p, id |-> id, size |-> 0,
               val |-> None]
    /\ UNCHANGED <<protoVars, alloc, processes, scopy>>

\* RepCXL::get_object
GetObject(p, id) ==
    /\ LET oi == LookupObject(ReadStateFromAny(p), id) IN
        ret' = [op |-> "get_object", pid |-> p, id |-> id, size |-> 0,
                val |-> IF oi = None THEN None ELSE Some(oi.offset)]
    /\ UNCHANGED <<protoVars, alloc, nstate, processes, live, scopy>>

\* -------------------------------------------------------- starting block
StartupDelay == 2

\* StartingBlock::new
NewStartingBlock ==
    [start_time |-> None,
     ready_processes |-> [i \in 0..(MAX_PROCESSES - 1) |-> FALSE]]

\* no call of the OWCC table was made yet
NoWccCall == [op |-> "none", oid |-> 0, cur |-> 0, round |-> 0, pid |-> 0,
              val |-> None]

\* the state that the rendezvous on the starting block leaves alone
notStartVars == <<late, view, sharedVars, clientVars, monster_state,
                  roundVars, reqVars, pc, ioVars, trace, readVars, histVars,
                  alloc, nstate, ret, live, scopy, acks, wres, stopVars,
                  wret>>

\* StartingBlock::start_at
StartAt(t) ==
    /\ sblock' = [sblock EXCEPT !.start_time = Some(t)]
    /\ UNCHANGED <<notStartVars, clock, processes, sync, stime, left>>

\* sync_start up to its loop: the process marks itself ready
SyncReady(p) ==
    /\ sync[p] = "idle"
    /\ sblock' = [sblock EXCEPT !.ready_processes[p] = TRUE]
    /\ sync' = [sync EXCEPT ![p] = "loop"]
    /\ UNCHANGED <<notStartVars, clock, processes, stime, left>>

\* the loop of sync_start in the coordinator: when every process of its
\* view is ready it writes start_time = now + 2 s
SyncCoordinator(p) ==
    /\ sync[p] = "loop"
    /\ GetCoordinator(p) = p
    /\ \A pid \in Registered(processes[p]) : sblock.ready_processes[pid]
    /\ sblock' = [sblock EXCEPT !.start_time = Some(clock + StartupDelay)]
    /\ stime' = [stime EXCEPT ![p] = Some(clock + StartupDelay)]
    /\ left' = [left EXCEPT ![p] = Some(clock)]
    /\ sync' = [sync EXCEPT ![p] = "started"]
    /\ UNCHANGED <<notStartVars, clock, processes>>

\* StartingBlock::start_is_scheduled
StartIsScheduled ==
    sblock.start_time # None /\ sblock.start_time.some > clock

\* a replica that polls start_is_scheduled
StartSeenScheduled(p) == sync[p] = "loop" /\ StartIsScheduled

\* `sblock.start_time.is_some()` in the loop of sync_start
StartSeen(p) == sync[p] = "loop" /\ sblock.start_time # None

\* the loop of sync_start in another process: it leaves when it sees a
\* start time, and takes it
SyncReplica(p) ==
    /\ GetCoordinator(p) # p
    /\ StartSeen(p)
    /\ stime' = [stime EXCEPT ![p] = sblock.start_time]
    /\ left' = [left EXCEPT ![p] = Some(clock)]
    /\ sync' = [sync EXCEPT ![p] = "started"]
    /\ UNCHANGED <<notStartVars, clock, processes, sblock>>

\* SystemTime::now goes on during the rendezvous
TickStart ==
    /\ clock < MaxClock
    /\ clock' = clock + 1
    /\ UNCHANGED <<notStartVars, processes, sblock, sync, stime, left>>

\* ------------------------------------------------ the OWCC table, directly
\* no worker and no client has made a step
Untouched ==
    /\ clock = 0
    /\ nwrites = [p \in Procs |-> 0]
    /\ trace = [p \in Procs |-> <<>>]

\* the state that a direct call of the table leaves alone
notWccVars == <<timeVars, view, mem, clientVars, monster_state, roundVars,
                reqVars, pc, ioVars, trace, readVars, histVars, mgmtVars,
                acks, wres, stopVars, startVars>>

\* ObjectWCC::write called on the table of the master node
WccWrite(o, round, pid) ==
    /\ Untouched
    /\ owcc' = [owcc EXCEPT ![1] = OwccWrite(@, o, round, pid)]
    /\ wret' = [op |-> "write", oid |-> o, cur |-> 0, round |-> round,
                pid |-> pid, val |-> None]
    /\ UNCHANGED notWccVars

\* ObjectWCC::is_last called on the table of the master node
WccIsLast(o, current, round, pid) ==
    /\ Untouched
    /\ wret' = [op |-> "is_last", oid |-> o, cur |-> current,
                round |-> round, pid |-> pid,
                val |-> Some(IsLast(owcc[1], o, current, round, pid))]
    /\ UNCHANGED <<notWccVars, owcc>>

\* ------------------------------------- the SharedState of a memory node
\* the state of the workers and of their clients that is not in a
\* SharedState
workerVars == <<timeVars, view, mem, clientVars, monster_state, roundVars,
                reqVars, pc, ioVars, trace, readVars, histVars, acks, wres,
                stopVars>>

\* MemoryNode::read_state: a copy of the SharedState of node n, that is of
\* its allocator, its starting block and its OWCC table
ReadState(n) == [allocator |-> nstate[n], starting_block |-> sblock,
                 wcc |-> owcc[n]]

\* new_object or remove_object up to its write-back: the state is copied
\* from the first node of the view and the allocator of the copy is changed
CopyState(p, op, id) ==
    /\ sync[p] # "loop"
    /\ scopy[p] = None
    /\ LET st == ReadState(view[p][1])
           r == IF op = "new_object"
                THEN AllocObject(st.allocator, id, ObjSize)
                ELSE [alloc |-> DeallocObject(st.allocator, id), val |-> None]
       IN scopy' = [scopy EXCEPT ![p] =
                       [op |-> op, id |-> id, val |-> r.val,
                        state |-> [st EXCEPT !.allocator = r.alloc]]]
    /\ UNCHANGED <<workerVars, owcc, sideVars, alloc, nstate, processes, ret,
                   live>>

\* the rest of new_object or remove_object: `node.write_state(state)` for
\* every node of the view writes the whole copy; new_object writes when
\* alloc_object has returned an offset
WriteBack(p) ==
    /\ scopy[p] # None
    /\ LET c == scopy[p]
           nodes == IF c.op = "new_object" /\ c.val \in {None, Panic}
                    THEN {} ELSE ViewNodes(p)
       IN /\ nstate' = [n \in Nodes |->
                IF n \in nodes THEN c.state.allocator ELSE nstate[n]]
          /\ owcc' = [n \in Nodes |->
                IF n \in nodes THEN c.state.wcc ELSE owcc[n]]
          /\ sblock' = IF nodes = {} THEN sblock ELSE c.state.starting_block
          /\ live' = IF nodes = {} THEN live
                     ELSE IF c.op = "new_object" THEN live \cup {c.id}
                     ELSE live \ {c.id}
          /\ ret' = [op |-> c.op, pid |-> p, id |-> c.id,
                     size |-> IF c.op = "new_object" THEN ObjSize ELSE 0,
                     val |-> c.val]
    /\ scopy' = [scopy EXCEPT ![p] = None]
    /\ UNCHANGED <<workerVars, sync, stime, left, wret, alloc, processes>>

\* ----------------------------------------------------------------- Init
Init ==
    /\ clock = 0
    /\ late = 0
    /\ view \in [Procs -> Views]
    /\ mem = [n \in Nodes |-> [o \in Objects |-> ZeroEntry]]
    /\ owcc = [n \in Nodes |-> [i \in 0..(MAX_PROCESSES - 1) |-> ZeroSlot]]
    /\ queue = [p \in Procs |-> <<>>]
    /\ awaiting = [p \in Procs |-> FALSE]
    /\ nwrites = [p \in Procs |-> 0]
    /\ cur = [p \in Procs |-> None]
    /\ conc = [p \in Procs |-> FALSE]
    /\ lastw = [o \in Objects |-> {}]
    /\ monster_state = [p \in Procs |-> "Try"]
    /\ round_num = [p \in Procs |-> 1]
    /\ round_start = [p \in Procs |-> 0]
    /\ pending_req = [p \in Procs |-> None]
    /\ wid = [p \in Procs |-> ZeroWid]
    /\ oid = [p \in Procs |-> 0]
    /\ pc = [p \in Procs |-> "body"]
    /\ io = [p \in Procs |-> 0]
    /\ omes = [p \in Procs |-> <<>>]
    /\ trace = [p \in Procs |-> <<>>]
    /\ rd = [p \in Procs |-> None]
    /\ rres = [p \in Procs |-> None]
    /\ nreads = 0
    /\ won = {}
    /\ rep = {}
    /\ fate = [p \in Procs |-> "none"]
    /\ lost = [p \in Procs |-> FALSE]
    /\ alloc = NewAllocator
    /\ nstate = [n \in Nodes |-> NewAllocator]
    /\ processes = [p \in Procs |-> <<p>>]
    /\ ret = NoCall
    /\ live = {}
    /\ scopy = [p \in Procs |-> None]
    /\ acks = [p \in Procs |-> <<>>]
    /\ wres = [p \in Procs |-> "none"]
    /\ stop_flag = FALSE
    /\ wexit = [p \in Procs |-> FALSE]
    /\ rexit = [p \in Procs |-> FALSE]
    /\ sblock = NewStartingBlock
    /\ sync = [p \in Procs |-> "idle"]
    /\ stime = [p \in Procs |-> None]
    /\ left = [p \in Procs |-> None]
    /\ wret = NoWccCall

\* --------------------------------------------------------------- clients
\* the processes whose write to object o has not been acknowledged yet
InFlight(o) == {q \in Procs : awaiting[q] /\ cur[q].oid = o}

\* the data of p's next write: values are opaque to the protocol, so every
\* write carries a non-zero value of its own that tells it from the others
FreshValueOf(limit, p) == p * limit + nwrites[p] + 1

FreshValue(p) == FreshValueOf(MaxWrites, p)

\* RepCXLObject::new: `ack_tx: mpsc::channel().0` and
\* `ack_rx: mpsc::channel().1` are the ends of two channels, and the other
\* end of each is dropped at once: the channel of ack_rx has no sender and
\* holds no message, so `ack_rx.recv()` returns Err without blocking
AckRecv == [err |-> "Disconnected"]

\* the `match self.ack_rx.recv()` of RepCXLObject::write
WriteResult(r) ==
    IF r = Some(TRUE) THEN "Ok"
    ELSE IF r = Some(FALSE) THEN "Failed write operation"
    ELSE "Failed to receive ack"

\* RepCXLObject::write: send the request with a clone of ack_tx, then
\* receive from ack_rx; the worker holds the request until it acks it
ClientWriteOf(limit, p, o, v) ==
    /\ ~awaiting[p]
    /\ nwrites[p] < limit
    /\ queue' = [queue EXCEPT ![p] = Append(@, [oid |-> o, data |-> v])]
    /\ awaiting' = [awaiting EXCEPT ![p] = TRUE]
    /\ nwrites' = [nwrites EXCEPT ![p] = @ + 1]
    /\ cur' = [cur EXCEPT ![p] = [oid |-> o, data |-> v]]
    /\ fate' = [fate EXCEPT ![p] = "none"]
    /\ lost' = [lost EXCEPT ![p] = FALSE]
    /\ conc' = [q \in Procs |->
                  IF q = p THEN InFlight(o) # {}
                  ELSE conc[q] \/ q \in InFlight(o)]
    /\ lastw' = [lastw EXCEPT ![o] = {p}]
    /\ rd' = [q \in Procs |->
                IF rd[q] # None /\ rd[q].oid = o
                THEN [rd[q] EXCEPT !.quiet = FALSE] ELSE rd[q]]
    /\ acks' = [acks EXCEPT ![p] = <<>>]
    /\ wres' = [wres EXCEPT ![p] = WriteResult(AckRecv)]
    /\ UNCHANGED <<timeVars, view, mgmtVars, stopVars, sideVars,
                   sharedVars, monster_state, roundVars,
                   reqVars, pc, ioVars, trace, rres, nreads, won, rep>>

\* a write of a client that issues MaxWrites writes at most
ClientWrite(p, o, v) == ClientWriteOf(MaxWrites, p, o, v)

\* an ack that leaves the request pending
AckKeep(p, how) ==
    /\ acks' = [acks EXCEPT ![p] = Append(@, TRUE)]
    /\ awaiting' = [awaiting EXCEPT ![p] = FALSE]
    /\ pending_req' = pending_req
    /\ fate' = [fate EXCEPT ![p] = how]

\* an ack that tells the client its write failed
AckFalse(p, how) ==
    /\ acks' = [acks EXCEPT ![p] = Append(@, FALSE)]
    /\ awaiting' = [awaiting EXCEPT ![p] = FALSE]
    /\ pending_req' = [pending_req EXCEPT ![p] = None]
    /\ fate' = [fate EXCEPT ![p] = how]

\* `req.ack_tx.send(true)`, `pending_req = None`
Ack(p, how) ==
    /\ acks' = [acks EXCEPT ![p] = Append(@, TRUE)]
    /\ awaiting' = [awaiting EXCEPT ![p] = FALSE]
    /\ pending_req' = [pending_req EXCEPT ![p] = None]
    /\ fate' = [fate EXCEPT ![p] = how]

\* ---------------------------------------------------------- write worker
\* a Wid that carries the round and not the process
NewWidNoPid(p) == <<round_num[p], 0>>

\* `Wid::new(round_num, view.self_id)`
NewWid(p) == <<round_num[p], p>>

\* Try, a request is in the queue
TryRecv(p) ==
    /\ Running(p)
    /\ monster_state[p] = "Try"
    /\ queue[p] # <<>>
    /\ Logged(p)
    /\ LET req == Head(queue[p]) IN
        /\ wid' = [wid EXCEPT ![p] = NewWid(p)]
        /\ oid' = [oid EXCEPT ![p] = req.oid]
        /\ owcc' = [owcc EXCEPT ![GetMasterNode(p)] =
                        OwccWrite(@, req.oid, round_num[p], p)]
        /\ pending_req' = [pending_req EXCEPT ![p] = req]
    /\ queue' = [queue EXCEPT ![p] = Tail(@)]
    /\ monster_state' = [monster_state EXCEPT ![p] = "Check"]
    /\ pc' = [pc EXCEPT ![p] = "next"]
    /\ UNCHANGED <<timeVars, view, mgmtVars, extVars,
                   mem, awaiting, nwrites, cur, conc, lastw,
                   roundVars, ioVars, readVars, histVars>>

\* Try, the queue is empty
TryEmpty(p) ==
    /\ Running(p)
    /\ monster_state[p] = "Try"
    /\ queue[p] = <<>>
    /\ Logged(p)
    /\ pc' = [pc EXCEPT ![p] = "next"]
    /\ UNCHANGED <<timeVars, view, mgmtVars, extVars,
                   sharedVars, clientVars, monster_state,
                   roundVars, reqVars, ioVars, readVars, histVars>>

\* a Retry that announces the pending request again under its old Wid
RetryStale(p) ==
    /\ Running(p)
    /\ monster_state[p] = "Retry"
    /\ pending_req[p] # None
    /\ Logged(p)
    /\ oid' = [oid EXCEPT ![p] = pending_req[p].oid]
    /\ owcc' = [owcc EXCEPT ![GetMasterNode(p)] =
                    OwccWrite(@, pending_req[p].oid, round_num[p], p)]
    /\ monster_state' = [monster_state EXCEPT ![p] = "Check"]
    /\ pc' = [pc EXCEPT ![p] = "next"]
    /\ UNCHANGED <<timeVars, view, mgmtVars, extVars,
                   mem, clientVars, roundVars, pending_req,
                   wid, ioVars, readVars, histVars>>

\* Retry: announce the pending request again, under a new Wid
Retry(p) ==
    /\ Running(p)
    /\ monster_state[p] = "Retry"
    /\ pending_req[p] # None
    /\ Logged(p)
    /\ wid' = [wid EXCEPT ![p] = NewWid(p)]
    /\ oid' = [oid EXCEPT ![p] = pending_req[p].oid]
    /\ owcc' = [owcc EXCEPT ![GetMasterNode(p)] =
                    OwccWrite(@, pending_req[p].oid, round_num[p], p)]
    /\ monster_state' = [monster_state EXCEPT ![p] = "Check"]
    /\ pc' = [pc EXCEPT ![p] = "next"]
    /\ UNCHANGED <<timeVars, view, mgmtVars, extVars,
                   mem, clientVars, roundVars, pending_req,
                   ioVars, readVars, histVars>>

\* `owcc.is_last(oid, round_num, wid.round_num, wid.process_id)`
CheckIsLast(p) ==
    IsLast(owcc[GetMasterNode(p)], oid[p], round_num[p], wid[p][1], wid[p][2])

\* a Check that does not ask the table
CheckNextUnchecked(p) == IF OnTime(p) THEN "Replicate" ELSE "Check"

\* a Check that gives the request up when its round has expired
CheckNextGiveUp(p) ==
    IF CheckIsLast(p)
    THEN IF OnTime(p) THEN "Replicate" ELSE "Try"
    ELSE "Wait"

\* the state that follows Check
CheckNext(p) ==
    IF CheckIsLast(p)
    THEN IF OnTime(p) THEN "Replicate" ELSE "Check"
    ELSE "Wait"

Check(p) ==
    /\ Running(p)
    /\ monster_state[p] = "Check"
    /\ Logged(p)
    /\ monster_state' = [monster_state EXCEPT ![p] = CheckNext(p)]
    /\ won' = IF CheckIsLast(p) THEN won \cup {<<oid[p], round_num[p], p>>}
              ELSE won
    /\ pc' = [pc EXCEPT ![p] = "next"]
    /\ UNCHANGED <<timeVars, view, mgmtVars, extVars,
                   sharedVars, clientVars, roundVars,
                   reqVars, ioVars, readVars, rep, fate, lost>>

\* the Wids that every node of p's view holds for object o at once
UniformWids(m, p, o) ==
    LET ws == {m[n][o].wid : n \in ViewNodes(p)} IN
    IF Cardinality(ws) = 1 THEN ws ELSE {}

\* history of the reads in progress: the Wids that all nodes of the reader's
\* view held at one moment since the first node was read
Observed(m) ==
    [q \in Procs |->
        IF rd[q] = None \/ rd[q].buf = <<>> THEN rd[q]
        ELSE [rd[q] EXCEPT !.uni = @ \cup UniformWids(m, q, rd[q].oid)]]

\* a fan-out that begins with the last node of the list
WriteNodeReverse(p) == view[p][Len(view[p]) - io[p]]

\* `for node in mem_nodes` of mem_writeall: the node that is written next
WriteNode(p) == view[p][io[p] + 1]

\* Replicate: mem_writeall visits the nodes one by one; after the last node
\* the ack is sent and the request is cleared
Replicate(p) ==
    /\ Running(p)
    /\ monster_state[p] = "Replicate"
    /\ pending_req[p] # None
    /\ IF io[p] = 0
       THEN /\ Logged(p)
            /\ rep' = rep \cup {<<pending_req[p].oid, round_num[p], p>>}
       ELSE UNCHANGED <<trace, rep>>
    /\ mem' = [mem EXCEPT ![WriteNode(p)][pending_req[p].oid] =
                   [wid |-> wid[p], value |-> pending_req[p].data]]
    /\ rd' = Observed(mem')
    /\ IF io[p] + 1 < Len(view[p])
       THEN /\ io' = [io EXCEPT ![p] = @ + 1]
            /\ UNCHANGED <<awaiting, pending_req, fate, monster_state, pc,
                           acks>>
       ELSE /\ io' = [io EXCEPT ![p] = 0]
            /\ Ack(p, "replicated")
            /\ monster_state' = [monster_state EXCEPT ![p] = "Try"]
            /\ pc' = [pc EXCEPT ![p] = "next"]
    /\ UNCHANGED <<timeVars, view, mgmtVars, wres, stopVars, sideVars, owcc,
                   queue, nwrites, cur, conc, lastw,
                   roundVars, wid, oid, omes, rres, nreads, won, lost>>

Wait(p) ==
    /\ Running(p)
    /\ monster_state[p] = "Wait"
    /\ Logged(p)
    /\ monster_state' = [monster_state EXCEPT ![p] = "PostConflictCheck"]
    /\ pc' = [pc EXCEPT ![p] = "next"]
    /\ UNCHANGED <<timeVars, view, mgmtVars, extVars,
                   sharedVars, clientVars, roundVars,
                   reqVars, ioVars, readVars, histVars>>

\* a conflict check that finds no entry smaller
NoneSmaller(es, w) == FALSE

\* a conflict check with the comparison turned round
AnyGreater(es, w) == \E i \in 1..Len(es) : WidLess(w, es[i].wid)

\* `omes.iter().any(|ome| ome.wid < wid)`
AnySmaller(es, w) == \E i \in 1..Len(es) : WidLess(es[i].wid, w)

\* history: the entries es read by p's PostConflictCheck hold a Wid greater
\* than p's on some node and a smaller one on another, and no other process
\* has a write in flight
PartlyWritten(p, es) ==
    /\ AnySmaller(es, wid[p])
    /\ \E i \in 1..Len(es) : WidLess(wid[p], es[i].wid)
    /\ \A q \in Procs \ {p} : ~awaiting[q]

\* PostConflictCheck: mem_readall visits the nodes one by one; after the
\* last node the entries read decide between Retry and the ack
PostConflictCheck(p) ==
    /\ Running(p)
    /\ monster_state[p] = "PostConflictCheck"
    /\ pending_req[p] # None
    /\ IF io[p] = 0 THEN Logged(p) ELSE UNCHANGED trace
    /\ LET es == Append(omes[p], mem[view[p][io[p] + 1]][pending_req[p].oid]) IN
       IF io[p] + 1 < Len(view[p])
       THEN /\ io' = [io EXCEPT ![p] = @ + 1]
            /\ omes' = [omes EXCEPT ![p] = es]
            /\ UNCHANGED <<awaiting, pending_req, fate, monster_state, pc,
                           lost, acks>>
       ELSE /\ io' = [io EXCEPT ![p] = 0]
            /\ omes' = [omes EXCEPT ![p] = <<>>]
            /\ pc' = [pc EXCEPT ![p] = "next"]
            /\ lost' = [lost EXCEPT ![p] = PartlyWritten(p, es)]
            /\ IF AnySmaller(es, wid[p])
               THEN /\ monster_state' = [monster_state EXCEPT ![p] = "Retry"]
                    /\ UNCHANGED <<awaiting, pending_req, fate, acks>>
               ELSE /\ Ack(p, "superseded")
                    /\ monster_state' = [monster_state EXCEPT ![p] = "Try"]
    /\ UNCHANGED <<timeVars, view, mgmtVars, wres, stopVars, sideVars,
                   sharedVars,
                   queue, nwrites, cur, conc,
                   lastw, roundVars, wid, oid, readVars, won, rep>>

\* the call of wait_next_round that ends every iteration
NextRound(p) ==
    /\ pc[p] = "next"
    /\ WaitNextRound(p)
    /\ pc' = [pc EXCEPT ![p] = "body"]
    /\ UNCHANGED <<timeVars, view, mgmtVars, extVars,
                   sharedVars, clientVars, monster_state,
                   reqVars, ioVars, trace, readVars, histVars>>

\* ------------------------------------------------------------ wall clock
\* a round boundary passes; it is late for a worker still in its body
Tick ==
    /\ clock < MaxClock
    /\ clock' = clock + 1
    /\ IF AllSettled THEN late' = late
       ELSE late < MaxLate /\ late' = late + 1
    /\ UNCHANGED <<view, mgmtVars, extVars, sharedVars,
                   clientVars, monster_state, roundVars,
                   reqVars, pc, ioVars, trace, readVars, histVars>>

\* a round boundary passes in a run without overtime: every worker has
\* finished its body and waits for the boundary
TickSync ==
    /\ AllSettled
    /\ clock < MaxClock + Settle
    /\ clock' = clock + 1
    /\ UNCHANGED <<late, view, mgmtVars, extVars, sharedVars,
                   clientVars, monster_state,
                   roundVars, reqVars, pc, ioVars, trace, readVars, histVars>>

\* ----------------------------------------------------------- read worker
\* a fold that compares the Wid of every entry with itself
RECURSIVE ReadFoldSelf(_, _, _, _)
ReadFoldSelf(states, i, cons, best) ==
    IF i > Len(states) THEN <<cons, best>>
    ELSE ReadFoldSelf(states, i + 1,
                      cons /\ states[i].wid = states[i].wid,
                      IF WidLess(best.wid, states[i].wid) THEN states[i] ELSE best)

\* the fold of monster_read over the entries: (consistent, latest)
RECURSIVE ReadFold(_, _, _, _)
ReadFold(states, i, cons, best) ==
    IF i > Len(states) THEN <<cons, best>>
    ELSE ReadFold(states, i + 1,
                  cons /\ states[i].wid = states[1].wid,
                  IF WidLess(best.wid, states[i].wid) THEN states[i] ELSE best)

\* an answer that carries the value of the first entry
ReadResultFirst(states) ==
    LET f == ReadFold(states, 2, TRUE, states[1]) IN
    [kind |-> IF f[1] THEN "ReadSafe" ELSE "ReadDirty", value |-> states[1].value]

\* ReadSafe(latest.value) or ReadDirty(latest.value)
ReadResult(states) ==
    LET f == ReadFold(states, 2, TRUE, states[1]) IN
    [kind |-> IF f[1] THEN "ReadSafe" ELSE "ReadDirty", value |-> f[2].value]

\* RepCXLObject::read: the request reaches the read worker
ClientRead(p, o) ==
    /\ ~rexit[p]
    /\ rd[p] = None
    /\ nreads < MaxReads
    /\ nreads' = nreads + 1
    /\ rd' = [rd EXCEPT ![p] = [oid |-> o, buf |-> <<>>, u0 |-> FALSE,
                                uni |-> {}, quiet |-> InFlight(o) = {}]]
    /\ rres' = [rres EXCEPT ![p] = None]
    /\ UNCHANGED <<timeVars, view, mgmtVars, extVars,
                   sharedVars, clientVars, monster_state,
                   roundVars, reqVars, pc, ioVars, trace, histVars>>

\* the entries of the read in progress, with the entry of the next node
EntriesRead(p) ==
    Append(rd[p].buf, mem[view[p][Len(rd[p].buf) + 1]][rd[p].oid])

\* mem_readall of monster_read visits one more node; after the last node
\* the entries are classified and the answer is sent, and the worker is
\* back at the top of its loop, where it leaves if stop_flag is set and
\* blocks in `req_queue_rx.recv()` if not
ReadNode(p) ==
    /\ ~rexit[p]
    /\ rd[p] # None
    /\ LET r == rd[p]
           es == EntriesRead(p)
           now == UniformWids(mem, p, r.oid)
       IN IF Len(es) < Len(view[p])
          THEN /\ rd' = [rd EXCEPT ![p] =
                     IF r.buf = <<>>
                     THEN [r EXCEPT !.buf = es, !.u0 = (now # {}), !.uni = now]
                     ELSE [r EXCEPT !.buf = es]]
               /\ UNCHANGED <<rres, rexit>>
          ELSE /\ rd' = [rd EXCEPT ![p] = None]
               /\ rres' = [rres EXCEPT ![p] = ReadResult(es)]
               /\ rexit' = [rexit EXCEPT ![p] = stop_flag]
    /\ UNCHANGED <<timeVars, view, mgmtVars, acks, wres, stop_flag, wexit,
                   sideVars,
                   sharedVars, clientVars, monster_state,
                   roundVars, reqVars, pc, ioVars, trace, nreads, histVars>>

\* ------------------------------------------------------- specifications
\* an iteration of the loop of monster_write begins: stop_flag is loaded
AtLoopTop(p) == Running(p) /\ io[p] = 0

\* a state body of monster_write, entered with stop_flag not set, or the
\* call of wait_next_round
WriterBody(p) ==
    \/ TryRecv(p)
    \/ TryEmpty(p)
    \/ Retry(p)
    \/ Check(p)
    \/ Replicate(p)
    \/ Wait(p)
    \/ PostConflictCheck(p)
    \/ NextRound(p)

Writer(p) ==
    /\ ~wexit[p]
    /\ ~(AtLoopTop(p) /\ stop_flag)
    /\ WriterBody(p)

\* `if stop_flag.load(Ordering::Relaxed) { break; }` of monster_write
WriteStop(p) ==
    /\ ~wexit[p]
    /\ AtLoopTop(p)
    /\ stop_flag
    /\ wexit' = [wexit EXCEPT ![p] = TRUE]
    /\ UNCHANGED <<protoVarsBase, mgmtVars, acks, wres, stop_flag, rexit,
                   sideVars>>

\* a thread that holds the flag stores true into it
SetStop ==
    /\ ~stop_flag
    /\ stop_flag' = TRUE
    /\ UNCHANGED <<protoVarsBase, mgmtVars, acks, wres, wexit, rexit,
                   sideVars>>

Next ==
    \/ \E p \in Procs, o \in Objects : ClientWrite(p, o, FreshValue(p))
    \/ \E p \in Procs : Writer(p)
    \/ Tick

\* the write workers and their clients
Spec == Init /\ [][Next]_vars

NextMany ==
    \/ \E p \in Procs, o \in Objects :
          ClientWriteOf(MoreWrites, p, o, FreshValueOf(MoreWrites, p))
    \/ \E p \in Procs : Writer(p)
    \/ Tick

\* the write workers and clients that write MoreWrites times
SpecMany == Init /\ [][NextMany]_vars

NextManySync ==
    \/ \E p \in Procs, o \in Objects :
          ClientWriteOf(MoreWrites, p, o, FreshValueOf(MoreWrites, p))
    \/ \E p \in Procs : Writer(p)
    \/ TickSync

\* clients that write MoreWrites times, in runs without overtime
SpecManySync == Init /\ [][NextManySync]_vars

NextRead ==
    \/ Next
    \/ \E p \in Procs, o \in Objects : ClientRead(p, o)
    \/ \E p \in Procs : ReadNode(p)

\* the write workers, the read workers and their clients
SpecRead == Init /\ [][NextRead]_vars

NextSync ==
    \/ \E p \in Procs, o \in Objects : ClientWrite(p, o, FreshValue(p))
    \/ \E p \in Procs : Writer(p)
    \/ TickSync

\* the write workers in runs without overtime; the workers spin, so an
\* enabled body is executed, and the clock goes on
SpecSync ==
    /\ Init
    /\ [][NextSync]_vars
    /\ WF_vars(TickSync)
    /\ \A p \in Procs : WF_vars(Writer(p))

NextLive ==
    \/ \E p \in Procs, o \in Objects : ClientWrite(p, o, FreshValue(p))
    \/ \E p \in Procs : Writer(p)
    \/ Tick
    \/ TickSync

\* the write workers in runs where round boundaries pass during a body up
\* to MaxClock and no longer afterwards; the workers spin, so an enabled
\* body is executed, and the clock goes on
SpecLive ==
    /\ Init
    /\ [][NextLive]_vars
    /\ WF_vars(TickSync)
    /\ \A p \in Procs : WF_vars(Writer(p))

NextAlloc ==
    \/ \E id \in ObjIds, size \in Sizes : AllocCall(id, size)
    \/ \E id \in ObjIds : DeallocCall(id)

InitAlloc == Init /\ view = [p \in Procs |-> <<1, 2>>]

\* the allocator under any sequence of alloc_object and dealloc_object
SpecAlloc == InitAlloc /\ [][NextAlloc]_vars

InitObj == Init /\ \E v \in Views : view = [p \in Procs |-> v]

NextObj ==
    \/ \E p \in Procs, q \in Procs : RegisterProcess(p, q)
    \/ \E p \in Procs, id \in ObjIds : NewObject(p, id)
    \/ \E p \in Procs, id \in ObjIds : RemoveObject(p, id)
    \/ \E p \in Procs, id \in ObjIds : GetObject(p, id)

\* the object interface of processes that share their memory nodes
SpecObj == InitObj /\ [][NextObj]_vars

NextView == \E p \in Procs, pid \in Pids : RegisterProcess(p, pid)

\* the registration of processes in the group views
SpecView == Init /\ [][NextView]_vars

\* the worker of p has left its loop or waits for the next round
Settled(p) == wexit[p] \/ (pc[p] = "body" /\ round_start[p] > clock)

\* a round boundary passes with no body overtime; the clock goes on past
\* MaxClock while a worker has yet to see the flag
TickStop ==
    /\ \A p \in Procs : Settled(p)
    /\ clock < MaxClock \/ (stop_flag /\ \E p \in Procs : ~wexit[p])
    /\ clock' = clock + 1
    /\ UNCHANGED <<late, view, sharedVars, clientVars, monster_state,
                   roundVars, reqVars, pc, ioVars, trace, readVars, histVars,
                   mgmtVars, extVars>>

InitStop == Init /\ view = [p \in Procs |-> <<1, 2>>]

NextStop ==
    \/ \E p \in Procs, o \in Objects : ClientWrite(p, o, FreshValue(p))
    \/ \E p \in Procs : Writer(p)
    \/ \E p \in Procs : WriteStop(p)
    \/ \E p \in Procs, o \in Objects : ClientRead(p, o)
    \/ \E p \in Procs : ReadNode(p)
    \/ SetStop
    \/ TickStop

\* the workers and the stop flag: the workers spin or sleep for a bounded
\* time, so an enabled step of a worker is taken and the clock goes on; a
\* client need not send a request and the flag need not be set
SpecStop ==
    /\ InitStop
    /\ [][NextStop]_vars
    /\ WF_vars(TickStop)
    /\ \A p \in Procs : /\ WF_vars(Writer(p))
                        /\ WF_vars(WriteStop(p))
                        /\ WF_vars(ReadNode(p))

NextStart ==
    \/ \E p \in Procs, q \in Procs : RegisterProcess(p, q)
    \/ \E t \in 0..(MaxClock + StartupDelay) : StartAt(t)
    \/ \E p \in Procs : SyncReady(p)
    \/ \E p \in Procs : SyncCoordinator(p)
    \/ \E p \in Procs : SyncReplica(p)
    \/ TickStart

\* the rendezvous of the processes on the starting block
SpecStart == InitStop /\ [][NextStart]_vars

\* register_process is called before sync_start
RegisterFirst(p, q) == sync[p] = "idle" /\ RegisterProcess(p, q)

NextRendezvous ==
    \/ \E p \in Procs, q \in Procs : RegisterFirst(p, q)
    \/ \E p \in Procs : SyncReady(p)
    \/ \E p \in Procs : SyncCoordinator(p)
    \/ \E p \in Procs : SyncReplica(p)
    \/ TickStart

\* the rendezvous of processes that build their views and then call
\* sync_start: the loop of sync_start polls every 100 ms, so a poll that
\* stays possible is made; nothing says how fast the clock goes on
SpecRendezvous ==
    /\ InitStop
    /\ [][NextRendezvous]_vars
    /\ \A p \in Procs : /\ WF_vars(SyncCoordinator(p))
                        /\ WF_vars(SyncReplica(p))

\* object ids passed to new_object and remove_object while the state is shared
SharedIds == 1..MaxSharedId

\* sync_start is called by a process that is in no other call
SyncReadyIdle(p) == scopy[p] = None /\ SyncReady(p)

NextShared ==
    \/ \E p \in Procs, id \in SharedIds : CopyState(p, "new_object", id)
    \/ \E p \in Procs, id \in SharedIds : CopyState(p, "remove_object", id)
    \/ \E p \in Procs : WriteBack(p)
    \/ \E p \in Procs : SyncReadyIdle(p)
    \/ \E pid \in Procs : WccWrite(0, 1, pid)

\* new_object and remove_object step by step, while other processes mark
\* themselves ready and write the OWCC table of the master node
SpecShared == InitObj /\ [][NextShared]_vars

\* the workers on a table that was not called directly
NextWorkers ==
    /\ wret = NoWccCall
    /\ \/ \E p \in Procs, o \in Objects : ClientWrite(p, o, FreshValue(p))
       \/ \E p \in Procs : Writer(p)
       \/ Tick

NextWcc ==
    \/ \E o \in 0..1, round \in 0..MaxRound, pid \in 0..(MAX_PROCESSES + 1) :
          WccWrite(o, round, pid)
    \/ \E o \in 0..1, current \in 0..(MaxRound + 1), round \in 0..MaxRound,
          pid \in 0..(MAX_PROCESSES + 1) : WccIsLast(o, current, round, pid)
    \/ NextWorkers

\* the OWCC table of the master node: under any sequence of direct calls of
\* write and is_last, and under the calls that the write workers make
SpecWcc == InitStop /\ [][NextWcc]_vars

\* ================================================================ claims
\* one process at most per object and round in the history h
OnePerRound(h) ==
    \A x \in h, y \in h : (x[1] = y[1] /\ x[2] = y[2]) => x[3] = y[3]

\* no write is queued, pending or waiting for its acknowledgement
Quiescent ==
    \A p \in Procs :
        ~awaiting[p] /\ queue[p] = <<>> /\ pending_req[p] = None

\* the processes that have written object o
WritersOf(o) == {p \in Procs : cur[p] # None /\ cur[p].oid = o}

\* the nodes that every writer of object o has in its view
SharedNodes(o) == {n \in Nodes : \A p \in WritersOf(o) : n \in ViewNodes(p)}

Agree(o) == \A n \in SharedNodes(o), m \in SharedNodes(o) : mem[n][o] = mem[m][o]

Safe(v) == [kind |-> "ReadSafe", value |-> v]
Dirty(v) == [kind |-> "ReadDirty", value |-> v]

\* the read worker of p answers in this step
ReadDone(p) == rd[p] # None /\ rd'[p] = None

\* the read of p answered in this step began after the last write to its
\* object was acknowledged, and no write was issued since
QuietRead(p) == ReadDone(p) /\ rd[p].quiet

IsPrefix(s, t) == Len(s) <= Len(t) /\ \A i \in 1..Len(s) : s[i] = t[i]

\* s occurs in t as a run of consecutive entries
Occurs(s, t) ==
    \E k \in 0..(Len(t) - Len(s)) : \A i \in 1..Len(s) : t[k + i] = s[i]

\* p has issued the only write of the run
OnlyWrite(p) == nwrites[p] = 1 /\ \A q \in Procs \ {p} : nwrites[q] = 0

\* p has issued one write, and it is acknowledged
Once(p) == nwrites[p] = 1 /\ ~awaiting[p]

\* ------------------------------------------------------------------- C1
\* C1: for every object and round r at most one process's Check executed in
\* round r gets is_last = true, and no two processes run Replicate for the
\* same object in the same round
C1_OneReplicatorPerRound == OnePerRound(won) /\ OnePerRound(rep)

\* C1 in the runs where no round boundary has passed during a body
C1_WhenOnTime == late = 0 => (OnePerRound(won) /\ OnePerRound(rep))

\* ------------------------------------------------------------------- C2
\* C2: a read answers ReadSafe only if at some moment of its fan-out all the
\* nodes of the reader's view held the Wid it returns, also when a Replicate
\* interleaves with the per-node reads
C2_ReadSafeMeansUniform ==
    [][\A p \in Procs :
        (ReadDone(p) /\ rres'[p].kind = "ReadSafe")
            => (rd[p].buf = <<>> \/ rd[p].buf[1].wid \in rd[p].uni)]_vars

\* C2 in the runs where no round boundary has passed during a body
C2_WhenOnTime ==
    [][\A p \in Procs :
        (ReadDone(p) /\ rres'[p].kind = "ReadSafe" /\ late = 0)
            => (rd[p].buf = <<>> \/ rd[p].buf[1].wid \in rd[p].uni)]_vars

\* ------------------------------------------------------------------- C3
\* C3: every answer of the read worker carries the value of an entry whose
\* Wid is maximal among the entries read, and it is ReadDirty exactly when
\* two of the entries read carry different Wids
C3_ReadClassification ==
    [][\A p \in Procs : ReadDone(p) =>
        LET es == EntriesRead(p) IN
        /\ \E i \in 1..Len(es) :
              /\ rres'[p].value = es[i].value
              /\ \A j \in 1..Len(es) : ~WidLess(es[i].wid, es[j].wid)
        /\ rres'[p].kind \in {"ReadSafe", "ReadDirty"}
        /\ rres'[p].kind = "ReadDirty"
              <=> \E i, j \in 1..Len(es) : es[i].wid # es[j].wid]_vars

\* a read over two nodes was answered ReadDirty with a written value
C3_Witness ==
    \E p \in Procs :
        /\ Len(view[p]) = 2
        /\ rres[p] # None /\ rres[p].kind = "ReadDirty" /\ rres[p].value # 0

\* ------------------------------------------------------------------- C4
\* the clients have issued all their writes
Stopped == \A p \in Procs : nwrites[p] = MaxWrites

Converged == Quiescent /\ \A o \in Objects : Agree(o)

C5_RoundTrip ==
    [][\A p \in Procs : QuietRead(p) =>
        /\ lastw[rd[p].oid] = {} => rres'[p] = Safe(0)
        /\ \A w \in lastw[rd[p].oid] :
              (~conc[w] /\ ViewNodes(w) = ViewNodes(p))
                  => rres'[p] = Safe(cur[w].data)]_vars

\* C5 when one process only has written the object
C5_OneWriter ==
    [][\A p \in Procs : QuietRead(p) =>
        /\ lastw[rd[p].oid] = {} => rres'[p] = Safe(0)
        /\ \A w \in lastw[rd[p].oid] :
              (WritersOf(rd[p].oid) = {w} /\ ViewNodes(w) = ViewNodes(p))
                  => rres'[p] = Safe(cur[w].data)]_vars

\* ------------------------------------------------------------------- C6
\* C6: when the reader's view has a node that the writer's view lacks, still
\* at the zero Wid, a read that follows the acknowledgement of the writer's
\* write of v answers ReadDirty(v)
C6_ReadDirtyCarriesValue ==
    [][\A p \in Procs : QuietRead(p) =>
        \A w \in lastw[rd[p].oid] :
            (/\ WritersOf(rd[p].oid) = {w}
             /\ ViewNodes(p) \ ViewNodes(w) # {}
             /\ \A n \in ViewNodes(p) \ ViewNodes(w) :
                    mem[n][rd[p].oid].wid = ZeroWid)
                => rres'[p] = Dirty(cur[w].data)]_vars

\* the reader over both nodes got ReadDirty(v) after the only writer, over
\* one node, had its write of v acknowledged
C6_Witness ==
    \E p \in Procs, w \in Procs :
        /\ WritersOf(1) = {w} /\ ~awaiting[w]
        /\ ViewNodes(p) \ ViewNodes(w) # {}
        /\ rres[p] = Dirty(cur[w].data)

\* ------------------------------------------------------------------- C7
\* C7: the worker never goes from Check to Try; the state log never shows
\* Try, Check, Try; the only write of a run drives its worker through Try,
\* Check, Replicate and back to Try
C7_NoCheckToTry ==
    /\ [][\A p \in Procs : monster_state[p] = "Check"
            => monster_state'[p] \in {"Check", "Replicate", "Wait"}]_vars
    /\ [](\A p \in Procs : ~Occurs(<<"Try", "Check", "Try">>, trace[p]))
    /\ [](\A p \in Procs : OnlyWrite(p) =>
            /\ IsPrefix(trace[p], <<"Try", "Check", "Replicate", "Try">>)
            /\ fate[p] # "superseded")

\* the only write of the run is acknowledged and its worker is idle again
C7_Witness ==
    \E p \in Procs :
        /\ OnlyWrite(p)
        /\ fate[p] = "replicated"
        /\ trace[p] = <<"Try", "Check", "Replicate", "Try">>

\* ------------------------------------------------------------------- C8
\* C8: of two processes that have announced a write to the same object in
\* the same round, the one with the larger pid does not reach Replicate
C8_LargerPidLoses ==
    \A p \in Procs, q \in Procs :
        (/\ q < p
         /\ pending_req[p] # None /\ pending_req[q] # None
         /\ oid[p] = oid[q] /\ wid[p][1] = wid[q][1])
            => monster_state[p] # "Replicate"

\* ------------------------------------------------------------------- C9
\* the process whose Wid is the greater
Greater == CHOOSE g \in Procs : \A q \in Procs \ {g} : WidLess(wid[q], wid[g])

\* C9: when the concurrent writes of the processes to an object are all
\* acknowledged, the write with the greater Wid was replicated and the nodes
\* shared by the writers hold its entry
C9_GreaterWidStays ==
    \A o \in Objects :
        (Quiescent /\ \A p \in Procs : cur[p] # None /\ cur[p].oid = o /\ conc[p])
            => /\ fate[Greater] = "replicated"
               /\ \A n \in SharedNodes(o) :
                     mem[n][o] = [wid |-> wid[Greater], value |-> cur[Greater].data]

\* C9 in the runs where no round boundary has passed during a body
C9_WhenOnTime == late = 0 => C9_GreaterWidStays

\* ------------------------------------------------------------------ C10
\* C10: a loser whose PostConflictCheck finds the finished winner's write on
\* some of its nodes only goes to Retry; Retry announces again under a
\* greater Wid; the Check that follows wins while no other write is issued;
\* once the retried write is acknowledged every node of the loser's view
\* holds it, and the loser's read answers ReadSafe of its value
C10_LoserRetries ==
    /\ [][\A p \in Procs :
            (monster_state[p] = "PostConflictCheck" /\ pc[p] = "body"
                /\ pc'[p] = "next")
                => /\ monster_state'[p] \in {"Retry", "Try"}
                   /\ lost'[p] => monster_state'[p] = "Retry"]_vars
    /\ [][\A p \in Procs :
            (monster_state[p] = "Retry" /\ monster_state'[p] # "Retry")
                => /\ monster_state'[p] = "Check"
                   /\ WidLess(wid[p], wid'[p])
                   /\ owcc'[GetMasterNode(p)][p] =
                          [oid |-> oid'[p], round |-> wid'[p][1]]]_vars
    /\ [](\A p \in Procs :
            (/\ lost[p] /\ \A q \in Procs \ {p} : Once(q)
             /\ monster_state[p] = "Check")
                => CheckIsLast(p))
    /\ [](\A p \in Procs :
            (lost[p] /\ \A q \in Procs : Once(q))
                => /\ fate[p] = "replicated"
                   /\ \A n \in ViewNodes(p) :
                        mem[n][cur[p].oid] =
                            [wid |-> wid[p], value |-> cur[p].data])
    /\ [][\A p \in Procs :
            (QuietRead(p) /\ lost[p] /\ \A q \in Procs : Once(q))
                => rres'[p] = Safe(cur[p].data)]_vars

\* the loser went through PostConflictCheck, Retry, Check and Replicate,
\* and its read answered ReadSafe of its value
C10_Witness ==
    \E p \in Procs :
        /\ lost[p] /\ \A q \in Procs : Once(q)
        /\ Occurs(<<"PostConflictCheck", "Retry", "Check", "Replicate">>, trace[p])
        /\ rres[p] = Safe(cur[p].data)

\* ------------------------------------------------------------------ C11
\* the slots of allocator a that hold an entry
LiveSlots(a) == {i \in Slots : a.object_index[i] # None}

\* the entries in the slots i and j of a occupy disjoint ranges
DisjointSlots(a, i, j) ==
    LET x == a.object_index[i]
        y == a.object_index[j]
    IN x.offset + x.size <= y.offset \/ y.offset + y.size <= x.offset

\* C11: after any sequence of alloc_object and dealloc_object calls two live
\* entries a, b with a.offset < b.offset have a.offset + a.size <= b.offset;
\* the ranges of the entries of two slots are disjoint and inside total_size
C11_DisjointRanges ==
    \A i \in LiveSlots(alloc), j \in LiveSlots(alloc) :
        LET x == alloc.object_index[i]
            y == alloc.object_index[j]
        IN /\ x.offset < y.offset => x.offset + x.size <= y.offset
           /\ i # j => DisjointSlots(alloc, i, j)
           /\ x.offset + x.size <= TotalSize

\* the index is full and the entry of slot 1 does not begin where the entry
\* of slot 0 ends: a smaller object took the place of a larger one
C11_Witness ==
    /\ LiveSlots(alloc) = Slots
    /\ \A i \in Slots : alloc.object_index[i].size > 0
    /\ alloc.object_index[0].offset + alloc.object_index[0].size
          < alloc.object_index[1].offset

\* ------------------------------------------------------------------ C12
\* the sum of the sizes of the entries of a from slot i on
RECURSIVE SumSizes(_, _)
SumSizes(a, i) ==
    IF i >= MAX_OBJECTS THEN 0
    ELSE (IF a.object_index[i] = None THEN 0 ELSE a.object_index[i].size)
         + SumSizes(a, i + 1)

\* C12: after any sequence of alloc_object and dealloc_object calls, the
\* dealloc of an absent id included, allocated_size is the sum of the sizes
\* of the live entries, each a multiple of chunk_size, and it is at most
\* total_size
C12_AllocatedSize ==
    /\ alloc.allocated_size = SumSizes(alloc, 0)
    /\ alloc.allocated_size <= TotalSize
    /\ \A i \in LiveSlots(alloc) : alloc.object_index[i].size % ChunkSize = 0

\* dealloc_object has returned with the index full and all of total_size
\* allocated: the id it was asked to free was not present
C12_Witness ==
    /\ ret.op = "dealloc"
    /\ LiveSlots(alloc) = Slots
    /\ alloc.allocated_size = TotalSize

\* ------------------------------------------------------------------ C13
\* where the gap at the empty slot i of a begins: the end of the nearest
\* entry before i
GapStart(a, i) ==
    LET js == {j \in LiveSlots(a) : j < i} IN
    IF js = {} THEN 0
    ELSE LET k == CHOOSE j \in js : \A l \in js : l <= j IN
         a.object_index[k].offset + a.object_index[k].size

\* an empty slot of a has a gap of size sz or more
HasGap(a, sz) ==
    \E i \in Slots :
        a.object_index[i] = None /\ GapStart(a, i) + sz <= SlotEnd(a, i)

\* no two entries of a share an id
UniqueIds(a) ==
    \A i \in LiveSlots(a), j \in LiveSlots(a) :
        a.object_index[i].id = a.object_index[j].id => i = j

\* C13: alloc_object(id, size) returns None and leaves the allocator as it
\* is when allocated_size + rounded size > total_size, or the id is in the
\* index, or no empty slot has a gap large enough; in every other case it
\* returns Some(offset) and adds the one entry (id, offset, rounded size);
\* no two entries share an id
C13_AllocContract ==
    [][ret'.op = "alloc" =>
        LET sz == Rounded(ret'.size)
            fail == \/ alloc.allocated_size + sz > TotalSize
                    \/ LookupObject(alloc, ret'.id) # None
                    \/ ~HasGap(alloc, sz)
        IN /\ fail => (ret'.val = None /\ alloc' = alloc)
           /\ ~fail =>
                /\ ret'.val \notin {None, Panic}
                /\ \E i \in Slots :
                      /\ alloc.object_index[i] = None
                      /\ alloc' =
                           [allocated_size |-> alloc.allocated_size + sz,
                            object_index |->
                               [alloc.object_index EXCEPT ![i] =
                                   [id |-> ret'.id, offset |-> ret'.val.some,
                                    size |-> sz]]]
           /\ UniqueIds(alloc')]_vars

\* alloc_object has aborted on `expect("Previous entry should exist")`: it
\* was asked for MaxSize bytes, allocated_size + MaxSize is at most
\* total_size, and the live entries are not empty
C13_Aborted ==
    /\ ret.op = "alloc" /\ ret.val = Panic /\ ret.size = MaxSize
    /\ alloc.allocated_size + Rounded(MaxSize) <= TotalSize
    /\ LiveSlots(alloc) # {}
    /\ \A i \in LiveSlots(alloc) : alloc.object_index[i].size > 0

\* ------------------------------------------------------------------ C14
\* alloc_object(id, size) on a returned Some(offset)
Succeeds(a, id, size) == AllocObject(a, id, size).val \notin {None, Panic}

\* C14: in every reachable allocator state where alloc(id, s) succeeds,
\* dealloc(id) after it gives back the state before the alloc, and a second
\* alloc(id, s) succeeds again, with the same result and a range disjoint
\* from the range of every other live entry
C14_AllocDeallocAlloc ==
    \A id \in ObjIds, size \in Sizes :
        Succeeds(alloc, id, size) =>
            LET first == AllocObject(alloc, id, size)
                freed == DeallocObject(first.alloc, id)
                second == AllocObject(freed, id, size)
            IN /\ first.alloc # alloc
               /\ freed = alloc
               /\ second = first
               /\ \A i \in LiveSlots(second.alloc) :
                     \A j \in LiveSlots(second.alloc) \ {i} :
                        DisjointSlots(second.alloc, i, j)

\* the last call was an alloc that succeeded next to two live entries, and
\* the dealloc of its id gives an allocator where the alloc succeeds again
C14_Witness ==
    /\ ret.op = "alloc" /\ ret.val \notin {None, Panic}
    /\ LiveSlots(alloc) = Slots
    /\ alloc.object_index[1].id = ret.id
    /\ alloc.object_index[1].size > 0
    /\ Succeeds(DeallocObject(alloc, ret.id), ret.id, ret.size)

\* ------------------------------------------------------------------ C15
\* C15: new_object(id) called by a process that is not the coordinator of
\* its group view returns None and leaves the shared state of every memory
\* node as it is
C15_CoordinatorOnly ==
    [][(ret'.op = "new_object" /\ ~IsCoordinator(ret'.pid))
          => (ret'.val = None /\ nstate' = nstate)]_vars

\* new_object of a process that is not the coordinator of its view has
\* returned Some, and the object is in the index of the memory nodes
C15_CreatedByOther ==
    /\ ret.op = "new_object" /\ ret.val \notin {None, Panic}
    /\ processes[0] = <<0, 1>> /\ processes[1] = <<1, 0>>
    /\ ret.pid = 1
    /\ \A n \in ViewNodes(1) : LookupObject(nstate[n], ret.id) # None

\* ------------------------------------------------------------------ C16
\* C16: under any sequence of new_object and remove_object calls,
\* get_object(id) of a process that shares the memory nodes returns a handle
\* exactly when the id was created and not removed since; new_object of a
\* live id returns None and changes nothing
C16_GetObject ==
    /\ [][ret'.op = "get_object"
            => (ret'.val # None <=> ret'.id \in live)]_vars
    /\ [][(ret'.op = "new_object" /\ ret'.id \in live)
            => (ret'.val = None /\ nstate' = nstate)]_vars
    /\ [](\A p \in Procs, id \in ObjIds :
            LookupObject(ReadStateFromAny(p), id) # None <=> id \in live)

\* a process other than the coordinator got a handle from get_object after
\* an earlier object had been removed: the first slot of the index is empty
C16_Witness ==
    /\ ret.op = "get_object" /\ ret.val # None
    /\ ~IsCoordinator(ret.pid)
    /\ ReadStateFromAny(ret.pid).object_index[0] = None

\* ------------------------------------------------------------------ C17
\* C17: the object index never holds more than MAX_OBJECTS live entries;
\* with MAX_OBJECTS objects live, new_object of a fresh id returns None, it
\* does not abort, and it leaves every entry in place
C17_IndexLimit ==
    /\ [](\A n \in Nodes : Cardinality(LiveSlots(nstate[n])) <= MAX_OBJECTS)
    /\ [](Cardinality(live) <= MAX_OBJECTS)
    /\ [][(/\ ret'.op = "new_object"
            /\ Cardinality(LiveSlots(ReadStateFromAny(ret'.pid))) = MAX_OBJECTS
            /\ LookupObject(ReadStateFromAny(ret'.pid), ret'.id) = None)
            => (ret'.val = None /\ nstate' = nstate /\ live' = live)]_vars

\* new_object of a fresh id has returned None with MAX_OBJECTS objects live
\* and room left in total_size
C17_Witness ==
    /\ ret.op = "new_object" /\ ret.val = None
    /\ Cardinality(live) = MAX_OBJECTS
    /\ ret.id \notin live
    /\ ReadStateFromAny(ret.pid).allocated_size + Rounded(ObjSize) <= TotalSize

\* ------------------------------------------------------------------ C18
\* the processes of the model whose view holds exactly the process ids S
SameView(S) == {p \in Procs : Registered(processes[p]) = S}

\* the lowest id of a nonempty set of process ids
MinPid(S) == CHOOSE c \in S : \A q \in S : c <= q

\* C18: among the processes that registered the same set S of process ids,
\* exactly one reports is_coordinator() = true, the one whose id is the
\* minimum of S; register_process of a process id that is already in the
\* view leaves the view unchanged
C18_OneCoordinator ==
    /\ [](\A S \in SUBSET Pids :
            /\ \A p \in SameView(S) : IsCoordinator(p) <=> p = MinPid(S)
            /\ (S \cap Procs) \subseteq SameView(S) /\ S \cap Procs # {}
                  /\ MinPid(S) \in Procs
               => Cardinality({p \in SameView(S) : IsCoordinator(p)}) = 1)
    /\ [][(ret'.op = "register"
            /\ ret'.id \in Registered(processes[ret'.pid]))
           => processes' = processes]_vars

\* two processes hold the same view of two process ids, in different orders,
\* and process 1 has registered its own id, which its view holds from the
\* start, once more
C18_Witness ==
    /\ processes[0] = <<0, 1>>
    /\ processes[1] = <<1, 0>>
    /\ ret.op = "register" /\ ret.pid = 1 /\ ret.id = 1

\* ------------------------------------------------------------------ C19
\* C19: the round numbers returned by successive wait_next_round calls of a
\* worker grow by exactly one per call (round_start > 0 tells that an
\* earlier call of the worker has returned round_num)
C19_RoundMonotonic ==
    [][\A p \in Procs :
          (pc[p] = "next" /\ pc'[p] = "body" /\ round_start[p] > 0)
          => round_num'[p] = round_num[p] + 1]_vars

\* ------------------------------------------------------------------ C20
\* x > y written out: the later round, or the same round and the lower
\* process id
WidGreaterByFields(x, y) == x[1] > y[1] \/ (x[1] = y[1] /\ x[2] < y[2])

\* the Wids held by the workers and by the entries of the memory nodes
WidsInUse ==
    {wid[p] : p \in Procs}
    \cup UNION {{mem[n][o].wid : o \in DOMAIN mem[n]} : n \in DOMAIN mem}

C21_WriteOkIffAcked ==
    \A p \in Procs :
        wres[p] = "Ok" <=> \E i \in 1..Len(acks[p]) : acks[p][i] = TRUE

\* the worker has replicated the write of a client and sent ack true for it,
\* and handle.write has returned the error of a dropped reply channel
C21_AckedButErr ==
    \E p \in Procs :
        /\ acks[p] = <<TRUE>>
        /\ fate[p] = "replicated"
        /\ wres[p] = "Failed to receive ack"

\* ------------------------------------------------------------------ C22
\* C22: once the stop flag is set, the write worker and the read worker of
\* every process eventually leave their loops, also when no further request
\* arrives on their queues
C22_Cancellation ==
    \A p \in Procs : stop_flag ~> (wexit[p] /\ rexit[p])

\* the part of C22 about the write worker
C22_WriterExits == \A p \in Procs : stop_flag ~> wexit[p]

\* the flag is set, the write workers have left, and a read worker still
\* waits for a request that no client has sent
C22_ReaderBlocked ==
    /\ stop_flag
    /\ \A p \in Procs : wexit[p]
    /\ \E p \in Procs : ~rexit[p] /\ rd[p] = None

\* ------------------------------------------------------------------ C23
\* C23: start_time of the starting block is written once: after it has been
\* set, no start_at and no sync_start of any process changes its value
C23_StartTimeOnce ==
    [][sblock.start_time # None
       => sblock'.start_time = sblock.start_time]_vars

\* two processes have left sync_start as coordinators of their own views
C23_TwoCoordinators ==
    /\ sync = [p \in Procs |-> "started"]
    /\ \A p \in Procs : GetCoordinator(p) = p

\* ------------------------------------------------------------------ C24
\* a slot of object o holds a round strictly between round and cur
WccBetween(tbl, o, current, round) ==
    \E i \in DOMAIN tbl :
        tbl[i].oid = o /\ round < tbl[i].round /\ tbl[i].round < current

\* a slot of object o below slot pid holds the round `round`
WccLowerPid(tbl, o, round, pid) ==
    \E i \in DOMAIN tbl : tbl[i].oid = o /\ tbl[i].round = round /\ i < pid

\* C24: for every table and every argument with my_pid < MAX_PROCESSES,
\* is_last(oid, current_round, my_round, my_pid) returns false iff a slot of
\* the same oid has my_round < slot.round < current_round or a slot of the
\* same oid has slot.round = my_round and an index below my_pid, and true
\* otherwise
C24_IsLast ==
    (wret.op = "is_last" /\ wret.pid < MAX_PROCESSES)
    => /\ wret.val \in {Some(TRUE), Some(FALSE)}
       /\ wret.val = Some(FALSE)
            <=> \/ WccBetween(owcc[1], wret.oid, wret.cur, wret.round)
                \/ WccLowerPid(owcc[1], wret.oid, wret.round, wret.pid)

\* is_last has returned true although a slot of another object holds a
\* round between my_round and current_round
C24_Witness ==
    /\ wret.op = "is_last" /\ wret.pid < MAX_PROCESSES
    /\ wret.val = Some(TRUE)
    /\ \E i \in DOMAIN owcc[1] :
          /\ owcc[1][i].oid # wret.oid
          /\ wret.round < owcc[1][i].round /\ owcc[1][i].round < wret.cur

\* ------------------------------------------------------------------ C25
\* C25: owcc.write(oid, round, pid) changes slot pid to {oid, round} and no
\* other slot, and changes nothing when pid >= MAX_PROCESSES; every write of
\* the table by a write worker goes to the slot of the worker's own id
C25_OwnSlotOnly ==
    /\ [][wret'.op = "write" /\ wret' # wret
          => IF wret'.pid >= MAX_PROCESSES THEN owcc' = owcc
             ELSE /\ owcc'[1][wret'.pid]
                        = [oid |-> wret'.oid, round |-> wret'.round]
                  /\ \A i \in DOMAIN owcc[1] :
                        i # wret'.pid => owcc'[1][i] = owcc[1][i]
                  /\ owcc'[2] = owcc[2]]_vars
    /\ [][wret' = wret
          => \A n \in Nodes, i \in 0..(MAX_PROCESSES - 1) :
                owcc'[n][i] # owcc[n][i]
                => /\ i \in Procs
                   /\ pc[i] = "body" /\ pc'[i] = "next"
                   /\ monster_state[i] \in {"Try", "Retry"}
                   /\ n = GetMasterNode(i)
                   /\ owcc'[n][i] = [oid |-> oid'[i],
                                     round |-> round_num[i]]]_vars

\* both workers have announced a write, each in its own slot
C25_Witness ==
    /\ wret = NoWccCall
    /\ \A p \in Procs :
          /\ wid[p] = <<owcc[1][p].round, p>>
          /\ owcc[1][p].oid = oid[p]
          /\ owcc[1][p].round > 0

\* ------------------------------------------------------------------ C26
\* p runs the body of state st in this step
BodyOf(p, st) == pc[p] = "body" /\ monster_state[p] = st /\ pc'[p] = "next"

\* C26: from Check the worker goes to Replicate only if is_last is true and
\* the body finished within the round (now - round_start < round_time), it
\* stays in Check if is_last is true and the round is overtime, and it goes
\* to Wait if is_last is false; the Check body writes no memory node, and
\* every write of a memory node is made by a worker whose body of the round
\* is Replicate, so none is made in a round whose Check was overtime
C26_CheckTransitions ==
    /\ [][\A p \in Procs : BodyOf(p, "Check") =>
            LET tbl == owcc[GetMasterNode(p)]
                last == /\ ~WccBetween(tbl, oid[p], round_num[p], wid[p][1])
                        /\ ~WccLowerPid(tbl, oid[p], wid[p][1], wid[p][2])
                intime == clock - round_start[p] < 1
            IN /\ monster_state'[p] =
                     IF ~last THEN "Wait"
                     ELSE IF intime THEN "Replicate" ELSE "Check"
               /\ mem' = mem]_vars
    /\ [][\A n \in Nodes, o \in Objects : mem'[n][o] # mem[n][o] =>
            \E p \in Procs :
               /\ pc[p] = "body" /\ monster_state[p] = "Replicate"
               /\ \A q \in Procs \ {p} : pc'[q] = pc[q] /\ io'[q] = io[q]
               /\ mem'[n][o].wid = wid[p]]_vars

\* a Check with is_last = true has found its round expired and stayed in
\* Check
C26_Witness ==
    \E p \in Procs :
        /\ monster_state[p] = "Check" /\ pc[p] = "next"
        /\ clock - round_start[p] >= 1
        /\ <<oid[p], round_num[p], p>> \in won

\* ------------------------------------------------------------------ C27
\* the entries that mem_readall of p's PostConflictCheck returns in this
\* step, the last node being read now
ReadAll(p) ==
    Append(omes[p], mem[view[p][Len(view[p])]][pending_req[p].oid])

\* C27: PostConflictCheck goes to Retry, keeps the pending request and
\* sends no ack iff an entry returned by mem_readall has a Wid strictly
\* smaller than the worker's own; otherwise it sends ack(true), clears the
\* pending request and goes to Try; it writes no memory node in either case
C27_PostConflictCheck ==
    /\ [][\A p \in Procs : BodyOf(p, "PostConflictCheck") =>
            IF \E i \in 1..Len(ReadAll(p)) : WidLess(ReadAll(p)[i].wid, wid[p])
            THEN /\ monster_state'[p] = "Retry"
                 /\ pending_req'[p] = pending_req[p]
                 /\ pending_req[p] # None
                 /\ acks' = acks
            ELSE /\ monster_state'[p] = "Try"
                 /\ pending_req'[p] = None
                 /\ acks'[p] = Append(acks[p], TRUE)]_vars
    /\ [][\A p \in Procs :
            (pc[p] = "body" /\ monster_state[p] = "PostConflictCheck"
             /\ (pc'[p] # pc[p] \/ io'[p] # io[p]))
            => mem' = mem /\ owcc' = owcc]_vars

\* a PostConflictCheck has found no smaller entry: the write is acked, the
\* request is cleared, and no node of the view holds the value of the write
C27_Witness ==
    \E p \in Procs :
        /\ fate[p] = "superseded"
        /\ acks[p] = <<TRUE>>
        /\ monster_state[p] = "Try" /\ pending_req[p] = None
        /\ \A n \in ViewNodes(p) : mem[n][cur[p].oid].value # cur[p].data

\* ------------------------------------------------------------------ C28
\* p's Replicate body writes a node in this step
ReplicateStep(p) ==
    /\ pc[p] = "body" /\ monster_state[p] = "Replicate"
    /\ (io'[p] # io[p] \/ pc'[p] # pc[p])

\* C28: Replicate writes the entry {wid, req.data} of the pending request
\* to the nodes of the view one after the other in the order of the list,
\* and sends no ack before the last one is written; after the last write it
\* sends ack(true), clears the pending request and goes to Try
C28_ReplicateOrder ==
    /\ [][\A p \in Procs : ReplicateStep(p) =>
            LET k == io[p] + 1 IN
            /\ k <= Len(view[p])
            /\ mem' = [mem EXCEPT ![view[p][k]][pending_req[p].oid] =
                          [wid |-> wid[p], value |-> pending_req[p].data]]
            /\ IF k < Len(view[p])
               THEN /\ io'[p] = k
                    /\ acks' = acks
                    /\ pending_req' = pending_req
                    /\ monster_state'[p] = "Replicate"
               ELSE /\ io'[p] = 0
                    /\ acks'[p] = Append(acks[p], TRUE)
                    /\ pending_req'[p] = None
                    /\ monster_state'[p] = "Try"]_vars
    /\ [](\A p \in Procs :
            (monster_state[p] = "Replicate" /\ pending_req[p] # None)
            => acks[p] = <<>>)

\* a Replicate over two nodes is done: both nodes hold the entry of the
\* write, the ack is sent, the request is cleared and the state is Try
C28_Witness ==
    \E p \in Procs :
        /\ Len(view[p]) = 2
        /\ fate[p] = "replicated" /\ acks[p] = <<TRUE>>
        /\ monster_state[p] = "Try" /\ pending_req[p] = None
        /\ \A n \in ViewNodes(p) :
              mem[n][cur[p].oid] = [wid |-> wid[p], value |-> cur[p].data]

\* ------------------------------------------------------------------ C30
\* C30: every write request taken from the queue by the write worker gets
\* at most one ack, and every ack the worker sends is true, after a direct
\* Replicate as after a PostConflictCheck that finds the write superseded
C30_OneTrueAck ==
    /\ [](\A p \in Procs :
            /\ Len(acks[p]) <= 1
            /\ \A i \in 1..Len(acks[p]) : acks[p][i] = TRUE)
    /\ [][\A p \in Procs : Len(acks'[p]) > Len(acks[p]) =>
            /\ pending_req[p] # None /\ pending_req'[p] = None
            /\ BodyOf(p, "Replicate") \/ BodyOf(p, "PostConflictCheck")
            /\ acks'[p] = <<TRUE>>]_vars

\* one write was acked after its Replicate and another after a
\* PostConflictCheck that found it superseded, each once and with true
C30_Witness ==
    \E p \in Procs, q \in Procs :
        /\ fate[p] = "replicated" /\ acks[p] = <<TRUE>>
        /\ fate[q] = "superseded" /\ acks[q] = <<TRUE>>
        /\ pending_req[p] = None /\ pending_req[q] = None

\* ------------------------------------------------------------------ C31
\* p's worker assigns a Wid in this step: Try with a request, or Retry
AssignsWid(p) ==
    \/ BodyOf(p, "Try") /\ pending_req'[p] # None
    \/ BodyOf(p, "Retry")

\* C31: the Wids that a process assigns, in Try when it takes a request and
\* in Retry when it announces again, are strictly increasing over time;
\* every assigned Wid has a round of 1 or more and is greater than the Wid
\* (0, 0) of freshly allocated memory; no other step changes the Wid
C31_WidsIncrease ==
    /\ [][\A p \in Procs : AssignsWid(p) =>
            /\ WidLess(wid[p], wid'[p])
            /\ wid'[p][1] >= 1
            /\ WidLess(ZeroWid, wid'[p])]_vars
    /\ [][\A p \in Procs : wid'[p] # wid[p] => AssignsWid(p)]_vars

\* a worker has assigned a Wid in Try and, after a PostConflictCheck, a
\* second one in Retry, of a later round; the other worker has assigned a
\* Wid to each of the two writes of its client
C31_Witness ==
    \E p \in Procs, q \in Procs :
        /\ Occurs(<<"PostConflictCheck", "Retry">>, trace[p])
        /\ monster_state[p] = "Check" /\ pc[p] = "next"
        /\ wid[p][1] > 1
        /\ nwrites[q] = 2 /\ pending_req[q] = cur[q]
        /\ wid[q][1] > 1
        /\ \E n \in ViewNodes(q) : mem[n][cur[q].oid].wid = <<1, q>>

\* ------------------------------------------------------------------ C32
\* C32: the round number under which a state body of a worker runs is
\* strictly greater than the round number under which the previous body of
\* the same worker ran, from the first iteration on
C32_RoundPerBody ==
    [][\A p \in Procs :
          (pc[p] = "next" /\ pc'[p] = "body")
          => round_num'[p] > round_num[p]]_vars

\* the worker has run its first two bodies, Try and Check, and both ran
\* under round number 1
C32_SameRoundTwice ==
    \E p \in Procs :
        /\ trace[p] = <<"Try", "Check">>
        /\ pc[p] = "next"
        /\ wid[p] = <<1, p>>
        /\ round_num[p] = 1

\* ------------------------------------------------------------------ C33
\* every process holds the group view of all processes and has called
\* sync_start
AllInRendezvous ==
    \A p \in Procs : Registered(processes[p]) = Procs /\ sync[p] # "idle"

\* every process has left sync_start, with the start time of the block
AllStarted ==
    \A p \in Procs :
        /\ sync[p] = "started"
        /\ stime[p] # None /\ stime[p] = sblock.start_time

\* C33: if every process of the group view calls sync_start, the
\* coordinator eventually schedules a start time and every replica
\* eventually sees it and leaves with that start time, also when its poll
\* comes after the scheduled time has passed
C33_RendezvousEnds ==
    /\ AllInRendezvous ~> AllStarted
    /\ [](AllInRendezvous =>
            \A p, q \in Procs :
                (stime[p] # None /\ stime[q] # None) => stime[p] = stime[q])

\* a replica has left the rendezvous with a start time that was in the
\* past when it saw it
C33_Witness ==
    /\ AllInRendezvous /\ AllStarted
    /\ \E p \in Procs :
          GetCoordinator(p) # p /\ stime[p].some < left[p].some

\* ------------------------------------------------------------------ C34
\* C34: in every reachable state of the write worker a pending request is
\* present when the state is Check, Retry, Replicate, Wait or
\* PostConflictCheck and absent when the state is Try, so the exits for a
\* missing request are never taken; a request leaves the queue only in a
\* Try body that holds no request, and becomes the pending one
C34_PendingRequest ==
    /\ [](\A p \in Procs :
            monster_state[p] = "Try" <=> pending_req[p] = None)
    /\ [](\A p \in Procs :
            monster_state[p] \in {"Try", "Check", "Retry", "Replicate",
                                  "Wait", "PostConflictCheck"})
    /\ [][\A p \in Procs : Len(queue'[p]) < Len(queue[p]) =>
            /\ BodyOf(p, "Try")
            /\ pending_req[p] = None
            /\ pending_req'[p] = Head(queue[p])
            /\ queue'[p] = Tail(queue[p])]_vars
    /\ [][\A p \in Procs :
            (pending_req[p] # None /\ pending_req'[p] # None)
            => pending_req'[p] = pending_req[p]]_vars

\* a worker is in Retry with the request it took in Try still pending
C34_Witness ==
    \E p \in Procs :
        /\ monster_state[p] = "Retry" /\ pc[p] = "body"
        /\ pending_req[p] = cur[p]
        /\ Occurs(<<"Wait", "PostConflictCheck">>, trace[p])

\* ------------------------------------------------------------------ C36
\* the entries of object o that are stored on the memory nodes or were read
\* from them by a PostConflictCheck in progress
EntriesOf(o) ==
    {mem[n][o] : n \in Nodes}
    \cup UNION {{omes[p][i] : i \in 1..Len(omes[p])} :
                  p \in {q \in Procs : pending_req[q] # None
                                        /\ pending_req[q].oid = o}}

\* C36: a non-zero Wid identifies one write: any two entries of an object,
\* on the same or on different memory nodes, stored now or read earlier,
\* that carry the same non-zero Wid carry the same value
C36_WidIdentifiesWrite ==
    \A o \in Objects : \A x, y \in EntriesOf(o) :
        (x.wid = y.wid /\ x.wid # ZeroWid) => x.value = y.value

\* both writes of one process are done: the nodes hold the entry of the
\* second one and a worker has read the entry of the first one, under
\* another Wid
C36_Witness ==
    \E p \in Procs, q \in Procs, o \in Objects :
        /\ nwrites[p] = 2 /\ ~awaiting[p] /\ fate[p] = "replicated"
        /\ mem[1][o] = [wid |-> wid[p], value |-> cur[p].data]
        /\ omes[q] # <<>>
        /\ omes[q][1].wid[2] = p /\ omes[q][1].wid # wid[p]
        /\ omes[q][1].value # cur[p].data

\* ------------------------------------------------------------------ C35
\* C35: with synchronized rounds and no skipped round, the Wid stored for
\* an object at a memory node never decreases: no Replicate overwrites an
\* entry with an entry of strictly smaller Wid
C35_WidNeverDecreases ==
    [][\A n \in Nodes, o \in Objects :
          ~WidLess(mem'[n][o].wid, mem[n][o].wid)]_vars

\* a node holds the entry of a second Replicate, of greater Wid than the
\* entry of the other worker that it has overwritten
C35_Witness ==
    \E p \in Procs, q \in Procs, o \in Objects :
        /\ p # q
        /\ fate[p] = "replicated" /\ fate[q] = "replicated"
        /\ cur[p].oid = o /\ cur[q].oid = o
        /\ mem[1][o].wid = wid[p]
        /\ WidLess(wid[q], wid[p])

\* ------------------------------------------------------------------ C37
\* the empty slot i of a has a gap of size sz or more
Fits(a, i, sz) ==
    a.object_index[i] = None /\ GapStart(a, i) + sz <= SlotEnd(a, i)

\* C37: in every allocator state reached by alloc_object and dealloc_object
\* calls alloc_object does not abort: whenever it examines an empty slot
\* i > 0 the slot i - 1 is occupied; and the new entry goes to the first
\* empty slot whose gap fits the chunk-rounded size
C37_FirstFitNeverAborts ==
    [][ret'.op = "alloc" =>
        /\ ret'.val # Panic
        /\ ret'.val # None =>
             \E i \in Slots :
                /\ Fits(alloc, i, Rounded(ret'.size))
                /\ \A j \in Slots : j < i => ~Fits(alloc, j, Rounded(ret'.size))
                /\ alloc'.object_index[i] =
                      [id |-> ret'.id, offset |-> ret'.val.some,
                       size |-> Rounded(ret'.size)]]_vars

\* alloc_object has aborted in a state where the first two slots are empty
\* and the last one holds an entry: the gap at slot 0 was too small, and at
\* slot 1 the slot before it was empty
C37_EmptyBeforeEmpty ==
    /\ ret.op = "alloc" /\ ret.val = Panic
    /\ alloc.object_index[0] = None /\ alloc.object_index[1] = None
    /\ alloc.object_index[MAX_OBJECTS - 1] # None
    /\ alloc.object_index[MAX_OBJECTS - 1].size > 0
    /\ Rounded(ret.size) > alloc.object_index[MAX_OBJECTS - 1].offset
    /\ alloc.allocated_size + Rounded(ret.size) <= TotalSize

\* ------------------------------------------------------------------ C38
\* C38: every allocated object lies inside the object area of a memory
\* node: for every live entry, offset + size <= mem_size - sizeof(SharedState)
C38_InsideObjectArea ==
    \A n \in Nodes : \A i \in LiveSlots(nstate[n]) :
        nstate[n].object_index[i].offset + nstate[n].object_index[i].size
            <= ObjAreaSize

\* new_object has returned an object whose offset addr_at accepts and whose
\* last byte lies past the end of the mapped region
C38_PastEnd ==
    /\ ret.op = "new_object" /\ ret.val \notin {None, Panic}
    /\ AddrAtOk(ret.val.some)
    /\ StateSize + ret.val.some + ObjSize > MemSize
    /\ \A n \in ViewNodes(ret.pid) : LookupObject(nstate[n], ret.id) # None

\* ------------------------------------------------------------------ C39
\* p's call of new_object or remove_object returns in this step
Returns(p) == scopy[p] # None /\ scopy'[p] = None

\* C39: new_object and remove_object change only the allocator part of the
\* shared state: the ready bits and the OWCC slots that the master node
\* holds when the call writes the state back, those written by other
\* processes since the call read the state included, are still there
\* afterwards; and after the call every node of the caller's view holds the
\* same allocator table
C39_OnlyAllocatorChanges ==
    [][\A p \in Procs : Returns(p) =>
          /\ sblock' = sblock
          /\ owcc'[GetMasterNode(p)] = owcc[GetMasterNode(p)]
          /\ \A n, m \in ViewNodes(p) : nstate'[n] = nstate'[m]]_vars

\* new_object has returned an object, and the ready bit of a process that
\* waits in sync_start and an OWCC slot that was written are gone
C39_Overwritten ==
    /\ ret.op = "new_object" /\ ret.val \notin {None, Panic}
    /\ \E q \in Procs \ {ret.pid} :
          sync[q] = "loop" /\ ~sblock.ready_processes[q]
    /\ wret.op = "write" /\ wret.pid < MAX_PROCESSES /\ wret.round > 0
    /\ owcc[1][wret.pid] = ZeroSlot

====
